---- MODULE Spec2Model ----
(***************************************************************************)
(* Model of sbom.py: the manifest parsers (parse_pip, parse_npm,           *)
(* parse_npmlock), the revision lookup, and the module-level scan, sort    *)
(* and output steps.                                                       *)
(*                                                                         *)
(* A Python str is a sequence of one-character strings.  A Python value    *)
(* read from JSON is a tagged record [t, v]: None, a str, or a dict whose  *)
(* v is the insertion-ordered sequence of <<key, value>> pairs.  A call    *)
(* that may raise returns [exc |-> exception name or "none", val |-> ...]. *)
(***************************************************************************)
EXTENDS Integers, Sequences, FiniteSets, Bags, TLC

VARIABLES
    world,           \* the environment: argv, the directory tree, its files
    pc,              \* position in the module-level script
    exc,             \* "none", or the uncaught exception that ended the run
    exit_code,       \* -1 while running, else the process exit status
    git_repo_paths,  \* line 128
    idx,             \* position of the for loop of line 135 (1-based)
    commit_hash,     \* line 136
    pip_deps,        \* line 142
    npm_deps,        \* line 150
    npmlock_deps,    \* line 160
    sbom,            \* lines 132, 147, 155, 165, 168
    csv_file,        \* content written to sbom.csv (lines 174-177)
    json_file,       \* content written to sbom.json (lines 181-182)
    calls            \* history: the parser invocations made so far

vars == <<world, pc, exc, exit_code, git_repo_paths, idx, commit_hash,
          pip_deps, npm_deps, npmlock_deps, sbom, csv_file, json_file, calls>>

-----------------------------------------------------------------------------
(* Python str                                                              *)

\* The characters the model uses, in code point order.
ASCII ==
    <<"\t", "\n", " ", "\"", "-", ".", "0", "1", "2", "3", "=",
      "D", "V", "a", "b", "c", "d", "e", "f", "g", "h", "i", "k", "l", "n",
      "o", "p", "r", "s", "t", "v">>

ord(c) == CHOOSE k \in 1..Len(ASCII) : ASCII[k] = c

\* str.__lt__: lexicographic by code point, a proper prefix is smaller.
RECURSIVE str_lt(_, _)
str_lt(x, y) ==
    IF y = <<>> THEN FALSE
    ELSE IF x = <<>> THEN TRUE
    ELSE IF Head(x) = Head(y) THEN str_lt(Tail(x), Tail(y))
    ELSE ord(Head(x)) < ord(Head(y))

isspace(c) == c \in {" ", "\t", "\n"}

\* str.rstrip() without arguments: drops all trailing whitespace.
RECURSIVE rstrip(_)
rstrip(s) ==
    IF s = <<>> THEN s
    ELSE IF isspace(s[Len(s)]) THEN rstrip(SubSeq(s, 1, Len(s) - 1))
    ELSE s

RECURSIVE lstrip(_)
lstrip(s) ==
    IF s = <<>> THEN s
    ELSE IF isspace(Head(s)) THEN lstrip(Tail(s))
    ELSE s

\* bytes.strip()
strip(s) == lstrip(rstrip(s))

\* s[1:-1]
slice_1_m1(s) == IF Len(s) <= 2 THEN <<>> ELSE SubSeq(s, 2, Len(s) - 1)

\* str.split('=='): cut at every non-overlapping '==' found left to right;
\* acc is the segment being read.
RECURSIVE split_from(_, _)
split_from(s, acc) ==
    IF s = <<>> THEN <<acc>>
    ELSE IF Len(s) >= 2 /\ s[1] = "=" /\ s[2] = "="
         THEN <<acc>> \o split_from(SubSeq(s, 3, Len(s)), <<>>)
         ELSE split_from(Tail(s), Append(acc, Head(s)))

split(s) == split_from(s, <<>>)

-----------------------------------------------------------------------------
(* Python values                                                           *)

None == [t |-> "None", v |-> <<>>]
Str(s) == [t |-> "str", v |-> s]
Dict(items) == [t |-> "dict", v |-> items]
\* the content of a file that json.load rejects
InvalidJson == [t |-> "invalid", v |-> <<>>]

Ok(val) == [exc |-> "none", val |-> val]
Raise(e) == [exc |-> e, val |-> <<>>]

\* dict.get(key): the value, or None for a missing key
RECURSIVE items_get(_, _)
items_get(items, key) ==
    IF items = <<>> THEN None
    ELSE IF Head(items)[1] = key THEN Head(items)[2]
    ELSE items_get(Tail(items), key)

dict_get(d, key) == items_get(d.v, key)

\* d[key] = value on the items of a dict: a key already present keeps its
\* place and takes the new value, a new key goes last.
RECURSIVE items_set(_, _, _)
items_set(items, key, value) ==
    IF items = <<>> THEN << <<key, value>> >>
    ELSE IF Head(items)[1] = key THEN << <<key, value>> >> \o Tail(items)
    ELSE <<Head(items)>> \o items_set(Tail(items), key, value)

-----------------------------------------------------------------------------
(* parse_pip (lines 19-33)                                                 *)

\* A requirements.txt is the sequence of its lines, each without its "\n"
\* (which rstrip removes along with any other trailing whitespace); an
\* empty element is a blank line.
RECURSIVE pip_lines(_, _)
pip_lines(lines, deps) ==
    IF lines = <<>> THEN Ok(deps)
    ELSE LET line == rstrip(Head(lines))
             item == split(line)
         IN IF Len(item) < 2 THEN Raise("IndexError")
            ELSE pip_lines(Tail(lines), items_set(deps, item[1], Str(item[2])))

parse_pip(file) == pip_lines(file, <<>>)

-----------------------------------------------------------------------------
(* parse_npm (lines 36-59)                                                 *)

dependencies == <<"d","e","p","e","n","d","e","n","c","i","e","s">>
devDependencies == <<"d","e","v","D","e","p","e","n","d","e","n","c","i","e","s">>
peerDependencies == <<"p","e","e","r","D","e","p","e","n","d","e","n","c","i","e","s">>
optionalDependencies ==
    <<"o","p","t","i","o","n","a","l","D","e","p","e","n","d","e","n","c","i","e","s">>

\* the sections in another order
DEPS_KEYS_reordered ==
    <<dependencies, peerDependencies, devDependencies, optionalDependencies>>

\* line 36
DEPS_KEYS == <<dependencies, devDependencies, peerDependencies, optionalDependencies>>

\* lines 52-57 and 89-94: for each dep_key in keys, the items of
\* d.get(dep_key) unless it is None; .items() of a non-dict raises.
RECURSIVE deps_of(_, _, _)
deps_of(d, keys, deps) ==
    IF keys = <<>> THEN Ok(deps)
    ELSE LET deps_chunk == dict_get(d, Head(keys))
         IN IF deps_chunk = None THEN deps_of(d, Tail(keys), deps)
            ELSE IF deps_chunk.t # "dict" THEN Raise("AttributeError")
            ELSE deps_of(d, Tail(keys), deps \o deps_chunk.v)

parse_npm(file) ==
    IF file.t = "invalid" THEN Raise("JSONDecodeError")
    ELSE IF file.t # "dict" THEN Raise("AttributeError")
    ELSE deps_of(file, DEPS_KEYS, <<>>)

-----------------------------------------------------------------------------
(* parse_npmlock (lines 62-96)                                             *)

packages == <<"p","a","c","k","a","g","e","s">>
version == <<"v","e","r","s","i","o","n">>

\* the entry keyed "" not skipped
npmlock_entry_root_kept(pkg_name, pkg_data) ==
    IF pkg_data.t # "dict" THEN Raise("AttributeError")
    ELSE deps_of(pkg_data, DEPS_KEYS, << <<pkg_name, dict_get(pkg_data, version)>> >>)

\* lines 82-94: the pairs one entry of `packages` adds
npmlock_entry(pkg_name, pkg_data) ==
    IF pkg_name = <<>> THEN Ok(<<>>)
    ELSE IF pkg_data.t # "dict" THEN Raise("AttributeError")
    ELSE deps_of(pkg_data, DEPS_KEYS, << <<pkg_name, dict_get(pkg_data, version)>> >>)

\* lines 81-94
RECURSIVE npmlock_packages(_, _)
npmlock_packages(items, deps) ==
    IF items = <<>> THEN Ok(deps)
    ELSE LET r == npmlock_entry(Head(items)[1], Head(items)[2])
         IN IF r.exc # "none" THEN r
            ELSE npmlock_packages(Tail(items), deps \o r.val)

parse_npmlock(file) ==
    IF file.t = "invalid" THEN Raise("JSONDecodeError")
    ELSE IF file.t # "dict" THEN Raise("AttributeError")
    ELSE LET packages_data == dict_get(file, packages)
         IN IF packages_data.t # "dict" THEN Raise("AttributeError")
            ELSE npmlock_packages(packages_data.v, <<>>)

-----------------------------------------------------------------------------
(* The environment                                                         *)

\* A directory of the scanned tree:
\*   path     its path, a sequence of components
\*   git      whether it holds a .git directory
\*   git_log  what subprocess.run(['git', 'log', ...], cwd = path) gives:
\*            Ok(stdout), or Raise when the process cannot be started
\*   files    the content of each conventional file, or NoFile
\* world.dirs lists the directories in os.walk order (a directory before the
\* directories below it).
NoFile == [t |-> "absent", v |-> <<>>]
Text(lines) == [t |-> "text", v |-> lines]

FileNames == {"requirements.txt", "package.json", "package-lock.json"}

\* os.path.join(repo_path, name)
os_path_join(repo_path_, name) == Append(repo_path_, name)

\* os.path.dirname(path)
os_path_dirname(path) == SubSeq(path, 1, Len(path) - 1)

dir_at(repo_path_) == CHOOSE d \in {world.dirs[k] : k \in DOMAIN world.dirs} : d.path = repo_path_

\* the content of the file at path (NoFile when there is none)
file_at(path) ==
    LET name == path[Len(path)]
        here == {world.dirs[k] : k \in DOMAIN world.dirs}
        d == {x \in here : x.path = os_path_dirname(path)}
    IN IF d = {} \/ name \notin FileNames THEN NoFile
       ELSE (CHOOSE x \in d : TRUE).files[name]

os_path_exists(path) == file_at(path) # NoFile

\* find_git_repo_paths (lines 8-17)
RECURSIVE walk(_, _)
walk(dirs, git_repo_paths_) ==
    IF dirs = <<>> THEN git_repo_paths_
    ELSE walk(Tail(dirs), IF Head(dirs).git THEN Append(git_repo_paths_, Head(dirs).path)
                          ELSE git_repo_paths_)

find_git_repo_paths(dirs) == walk(dirs, <<>>)

\* the output of git taken without strip()
get_commit_hash_unstripped(repo_path_) ==
    LET proc == dir_at(repo_path_).git_log
    IN IF proc.exc # "none" THEN Raise(proc.exc)
       ELSE Ok(slice_1_m1(proc.val))

\* get_commit_hash (lines 98-104)
get_commit_hash(repo_path_) ==
    LET proc == dir_at(repo_path_).git_log
    IN IF proc.exc # "none" THEN Raise(proc.exc)
       ELSE Ok(slice_1_m1(strip(proc.val)))

\* create_sbom_entry (lines 106-120)
create_sbom_entry(name, version_, type, path, commit_hash_) ==
    [name |-> name, version |-> version_, type |-> type, path |-> path,
     commit_hash |-> commit_hash_]

\* sbom[0].keys() (line 175): the keys in the order create_sbom_entry sets them
entry_keys == <<"name", "version", "type", "path", "commit_hash">>

\* lines 144-147, 152-155, 162-165: one entry per pair, appended in order
RECURSIVE append_entries(_, _, _, _, _)
append_entries(sbom_, deps, type, path, commit_hash_) ==
    IF deps = <<>> THEN sbom_
    ELSE append_entries(
             Append(sbom_, create_sbom_entry(Head(deps)[1], Head(deps)[2], type, path,
                                             commit_hash_)),
             Tail(deps), type, path, commit_hash_)

-----------------------------------------------------------------------------
(* sorted(sbom, key = lambda x: (x['name'], x['version'])) (line 168)     *)

\* The comparison of two keys raises TypeError when the names are equal and
\* the versions are unequal and not both str (None < 'x' is not defined).
key_incomparable(a, b) ==
    /\ a.name = b.name
    /\ a.version # b.version
    /\ (a.version.t # "str" \/ b.version.t # "str")

\* (a.name, a.version) < (b.name, b.version)
key_lt(a, b) ==
    IF a.name # b.name THEN str_lt(a.name, b.name)
    ELSE IF a.version = b.version THEN FALSE
    ELSE str_lt(a.version.v, b.version.v)

\* a sort that keeps one record of each (name, version)
RECURSIVE insert_sorted_unique(_, _)
insert_sorted_unique(s, x) ==
    IF s = <<>> THEN <<x>>
    ELSE IF x.name = Head(s).name /\ x.version = Head(s).version THEN s
    ELSE IF key_lt(x, Head(s)) THEN <<x>> \o s
    ELSE <<Head(s)>> \o insert_sorted_unique(Tail(s), x)

\* insert x behind every element not greater than it (stable)
RECURSIVE insert_sorted(_, _)
insert_sorted(s, x) ==
    IF s = <<>> THEN <<x>>
    ELSE IF key_lt(x, Head(s)) THEN <<x>> \o s
    ELSE <<Head(s)>> \o insert_sorted(Tail(s), x)

RECURSIVE sort_into(_, _)
sort_into(done, rest) ==
    IF rest = <<>> THEN done
    ELSE sort_into(insert_sorted(done, Head(rest)), Tail(rest))

\* Any two elements of one name are compared with each other or with an
\* element between them, so the sort raises exactly when two are incomparable.
sorted(list) ==
    IF \E i, j \in 1..Len(list) : key_incomparable(list[i], list[j])
    THEN Raise("TypeError")
    ELSE Ok(sort_into(<<>>, list))

-----------------------------------------------------------------------------
(* The module-level script (lines 122-184)                                 *)

Unwritten == [written |-> FALSE, header |-> <<>>, rows |-> <<>>]

running == exc = "none" /\ exit_code = -1

\* the repository the loop of line 135 is at
repo_path == git_repo_paths[idx]

\* an uncaught exception ends the process where it is
uncaught(e) == exc' = e /\ exit_code' = 1

\* the end of one iteration of the loop of line 135
next_repo ==
    /\ idx' = idx + 1
    /\ pc' = IF idx < Len(git_repo_paths) THEN "hash" ELSE "sort"

\* lines 122-132
CheckArgs ==
    /\ running /\ pc = "args"
    /\ IF world.argc # 2
       THEN /\ exit_code' = 1
            /\ UNCHANGED <<pc, git_repo_paths>>
       ELSE /\ git_repo_paths' = find_git_repo_paths(world.dirs)
            /\ pc' = IF git_repo_paths' = <<>> THEN "sort" ELSE "hash"
            /\ UNCHANGED exit_code
    /\ UNCHANGED <<world, exc, idx, commit_hash, pip_deps, npm_deps, npmlock_deps,
                   sbom, csv_file, json_file, calls>>

\* lines 135-139
GetCommitHash ==
    /\ running /\ pc = "hash"
    /\ LET r == get_commit_hash(repo_path)
       IN IF r.exc # "none"
          THEN uncaught(r.exc) /\ UNCHANGED <<pc, commit_hash>>
          ELSE commit_hash' = r.val /\ pc' = "pip" /\ UNCHANGED <<exc, exit_code>>
    /\ UNCHANGED <<world, git_repo_paths, idx, pip_deps, npm_deps, npmlock_deps,
                   sbom, csv_file, json_file, calls>>

\* lines 141-147
PipStep ==
    /\ running /\ pc = "pip"
    /\ LET pip_path == os_path_join(repo_path, "requirements.txt")
           r == parse_pip(file_at(pip_path).v)
       IN IF ~os_path_exists(pip_path)
          THEN pc' = "npm" /\ UNCHANGED <<exc, exit_code, pip_deps, sbom, calls>>
          ELSE /\ calls' = Append(calls, [fn |-> "parse_pip", path |-> pip_path, result |-> r])
               /\ IF r.exc # "none"
                  THEN uncaught(r.exc) /\ UNCHANGED <<pc, pip_deps, sbom>>
                  ELSE /\ pip_deps' = r.val
                       /\ sbom' = append_entries(sbom, r.val, "pip", pip_path, commit_hash)
                       /\ pc' = "npm"
                       /\ UNCHANGED <<exc, exit_code>>
    /\ UNCHANGED <<world, git_repo_paths, idx, commit_hash, npm_deps, npmlock_deps,
                   csv_file, json_file>>

\* the lockfile looked for whether or not package.json exists
npm_missing_lock_checked == pc' = "lock" /\ UNCHANGED idx

\* lines 149 and 157-165: the lockfile is looked for inside the if of line
\* 149, so without a package.json the iteration ends
npm_missing == next_repo

\* lines 149-155
NpmStep ==
    /\ running /\ pc = "npm"
    /\ LET npm_path == os_path_join(repo_path, "package.json")
           r == parse_npm(file_at(npm_path))
       IN IF ~os_path_exists(npm_path)
          THEN npm_missing /\ UNCHANGED <<exc, exit_code, npm_deps, sbom, calls>>
          ELSE /\ calls' = Append(calls, [fn |-> "parse_npm", path |-> npm_path, result |-> r])
               /\ IF r.exc # "none"
                  THEN uncaught(r.exc) /\ UNCHANGED <<pc, idx, npm_deps, sbom>>
                  ELSE /\ npm_deps' = r.val
                       /\ sbom' = append_entries(sbom, r.val, "npm", npm_path, commit_hash)
                       /\ pc' = "lock"
                       /\ UNCHANGED <<exc, exit_code, idx>>
    /\ UNCHANGED <<world, git_repo_paths, commit_hash, pip_deps, npmlock_deps,
                   csv_file, json_file>>

\* lines 157-165
NpmLockStep ==
    /\ running /\ pc = "lock"
    /\ LET npmlock_path == os_path_join(repo_path, "package-lock.json")
           r == parse_npmlock(file_at(npmlock_path))
       IN IF ~os_path_exists(npmlock_path)
          THEN next_repo /\ UNCHANGED <<exc, exit_code, npmlock_deps, sbom, calls>>
          ELSE /\ calls' = Append(calls, [fn |-> "parse_npmlock", path |-> npmlock_path,
                                          result |-> r])
               /\ IF r.exc # "none"
                  THEN uncaught(r.exc) /\ UNCHANGED <<pc, idx, npmlock_deps, sbom>>
                  ELSE /\ npmlock_deps' = r.val
                       /\ sbom' = append_entries(sbom, r.val, "npm", npmlock_path, commit_hash)
                       /\ next_repo
                       /\ UNCHANGED <<exc, exit_code>>
    /\ UNCHANGED <<world, git_repo_paths, commit_hash, pip_deps, npm_deps,
                   csv_file, json_file>>

\* lines 167-168
SortStep ==
    /\ running /\ pc = "sort"
    /\ LET r == sorted(sbom)
       IN IF r.exc # "none"
          THEN uncaught(r.exc) /\ UNCHANGED <<pc, sbom>>
          ELSE sbom' = r.val /\ pc' = "csv" /\ UNCHANGED <<exc, exit_code>>
    /\ UNCHANGED <<world, git_repo_paths, idx, commit_hash, pip_deps, npm_deps,
                   npmlock_deps, csv_file, json_file, calls>>

\* lines 170-179: open() creates the file before sbom[0] is evaluated
WriteCsv ==
    /\ running /\ pc = "csv"
    /\ IF ~world.writable
       THEN uncaught("OSError") /\ UNCHANGED <<pc, csv_file>>
       ELSE IF sbom = <<>>
       THEN /\ uncaught("IndexError")
            /\ csv_file' = [written |-> TRUE, header |-> <<>>, rows |-> <<>>]
            /\ UNCHANGED pc
       ELSE /\ csv_file' = [written |-> TRUE, header |-> entry_keys, rows |-> sbom]
            /\ pc' = "json"
            /\ UNCHANGED <<exc, exit_code>>
    /\ UNCHANGED <<world, git_repo_paths, idx, commit_hash, pip_deps, npm_deps,
                   npmlock_deps, sbom, json_file, calls>>

\* lines 181-184, and the end of the script
WriteJson ==
    /\ running /\ pc = "json"
    /\ json_file' = [written |-> TRUE, header |-> entry_keys, rows |-> sbom]
    /\ pc' = "done"
    /\ exit_code' = 0
    /\ UNCHANGED <<world, exc, git_repo_paths, idx, commit_hash, pip_deps, npm_deps,
                   npmlock_deps, sbom, csv_file, calls>>

Next ==
    \/ CheckArgs
    \/ GetCommitHash
    \/ PipStep
    \/ NpmStep
    \/ NpmLockStep
    \/ SortStep
    \/ WriteCsv
    \/ WriteJson

\* the state once the interpreter has loaded the module's definitions
Start(w) ==
    /\ world = w
    /\ pc = "args"
    /\ exc = "none"
    /\ exit_code = -1
    /\ git_repo_paths = <<>>
    /\ idx = 1
    /\ commit_hash = <<>>
    /\ pip_deps = <<>>
    /\ npm_deps = <<>>
    /\ npmlock_deps = <<>>
    /\ sbom = <<>>
    /\ csv_file = Unwritten
    /\ json_file = Unwritten
    /\ calls = <<>>

-----------------------------------------------------------------------------
(* Bounds and input universes                                              *)

MaxRepos == 2      \* directories in the scanned tree
MaxKeys == 2       \* keys of a package.json, or of one lockfile entry
MaxPkgs == 2       \* entries of a lockfile's `packages`
MaxLineLen == 7    \* characters of the line of a one-line requirements.txt
MaxLines == 2      \* lines of a longer requirements.txt
MaxShortLen == 4   \* characters of each line of a longer requirements.txt

a == <<"a">>
b == <<"b">>
one == <<"1">>
two == <<"2">>
scripts == <<"s","c","r","i","p","t","s">>
lockfileVersion == <<"l","o","c","k","f","i","l","e","V","e","r","s","i","o","n">>

\* all str of at most n characters of the alphabet
Strs(alphabet, n) == UNION {[1..k -> alphabet] : k \in 0..n}

\* all sequences without repetition of first components, over pairs
SeqsUpTo(S, n) == UNION {[1..k -> S] : k \in 0..n}
DistinctKeys(s) == \A i, j \in 1..Len(s) : i # j => s[i][1] # s[j][1]

\* the dependency sections: every dict of distinct names over these pairs
DepPairs == {<<a, Str(one)>>, <<a, Str(two)>>, <<b, Str(one)>>}
DepDicts == {Dict(s) : s \in {x \in SeqsUpTo(DepPairs, 2) : DistinctKeys(x)}}
SectionVals == {None} \cup DepDicts
VersionVals == {Str(one), Str(two)}

\* the items of the dict with the keys and values of f, in the file's order
RECURSIVE items_in_order(_, _)
items_in_order(order, f) ==
    IF order = <<>> THEN <<>>
    ELSE (IF Head(order) \in DOMAIN f THEN << <<Head(order), f[Head(order)]>> >> ELSE <<>>)
         \o items_in_order(Tail(order), f)

\* every dict of at most n of the keys of `order`, `version` holding a str
\* and any other key a value of vals
Dicts(order, n, vals) ==
    LET keys == {order[k] : k \in DOMAIN order}
    IN {Dict(items_in_order(order, f)) :
          f \in UNION {{g \in [S -> vals \cup VersionVals] :
                          \A k \in S : IF k = version THEN g[k] \in VersionVals
                                       ELSE g[k] \in vals} :
                       S \in {T \in SUBSET keys : Cardinality(T) <= n}}}

NpmFileOrder == <<optionalDependencies, scripts, dependencies, peerDependencies,
                  devDependencies>>
PkgFileOrder == <<optionalDependencies, version, dependencies, peerDependencies,
                  devDependencies>>

\* the package.json files of at most n keys
NpmFiles(n) == Dicts(NpmFileOrder, n, SectionVals)

\* lockfiles: `packages` of one entry of at most n keys, or of up to m
\* entries of at most one key each; with and without the `packages` key
RichPkgs(n) ==
    {Dict(<< <<k, d>> >>) : k \in {<<>>, a}, d \in Dicts(PkgFileOrder, n, SectionVals)}
PlainPkgData == Dicts(PkgFileOrder, 1, {None, Dict(<< <<b, Str(one)>> >>)})
PlainPkgs(m) ==
    {Dict(s) : s \in {x \in SeqsUpTo({<<>>, a, b} \X PlainPkgData, m) : DistinctKeys(x)}}
LegacyDeps == Dict(<< <<a, Dict(<< <<version, Str(one)>> >>)>> >>)
LockFiles(n, m) ==
    {Dict(<< <<lockfileVersion, Str(two)>>, <<packages, p>> >>) : p \in RichPkgs(n) \cup PlainPkgs(m)}
    \cup {Dict(<< <<packages, p>>, <<dependencies, LegacyDeps>> >>) : p \in PlainPkgs(m)}
    \cup {Dict(<< <<lockfileVersion, Str(one)>>, <<dependencies, LegacyDeps>> >>), Dict(<<>>)}

\* requirements.txt files: one line of at most n characters, or 2 to m lines
\* of at most k characters
PipFiles(n, m, k) ==
    {Text(<<l>>) : l \in Strs({"a", "1", "=", " "}, n)}
    \cup {Text(ls) : ls \in UNION {[1..j -> Strs({"a", "1", "="}, k)] : j \in 2..m}}

\* "h<k>" in quotes and a line end: git's output for --format="%H"
git_stdout(k) == <<"\"", "h", ToString(k), "\"", "\n">>

Files(pip, npm, lock) ==
    [f \in FileNames |-> CASE f = "requirements.txt" -> pip
                           [] f = "package.json" -> npm
                           [] OTHER -> lock]

Repo(path, pip, npm, lock) ==
    [path |-> path, git |-> TRUE, git_log |-> Ok(git_stdout(Len(path))),
     files |-> Files(pip, npm, lock)]

World(dirs) == [argc |-> 2, writable |-> TRUE, dirs |-> dirs]

\* the manifests of the scan of several repositories
pipGood == Text(<< <<"b","=","=","2">>, <<"a","=","=","1">> >>)
pipBad == Text(<< <<"a","=","=","1">>, <<"b">> >>)
npmGood == Dict(<< <<dependencies, Dict(<< <<a, Str(one)>> >>)>> >>)
lockGood ==
    Dict(<< <<packages,
              Dict(<< << <<>>, Dict(<< <<dependencies, Dict(<< <<b, Str(two)>> >>)>> >>) >>,
                      << a, Dict(<< <<version, Str(two)>>,
                                    <<peerDependencies, Dict(<< <<a, Str(one)>> >>)>> >>) >> >>)>> >>)
lockNoPackages == Dict(<< <<lockfileVersion, Str(one)>>, <<dependencies, LegacyDeps>> >>)
lockNoVersion ==
    Dict(<< <<packages,
              Dict(<< << a, Dict(<< <<dependencies, Dict(<< <<a, Str(one)>> >>)>> >>) >> >>)>> >>)

\* the directories a tree may hold at `path`: every combination of present
\* and absent manifests, and one directory for each kind of fault
DirsAt(path) ==
    {Repo(path, p, n, l) : p \in {NoFile, pipGood}, n \in {NoFile, npmGood},
                           l \in {NoFile, lockGood}}
    \cup {Repo(path, pipBad, NoFile, NoFile),
          Repo(path, NoFile, InvalidJson, lockGood),
          Repo(path, NoFile, npmGood, lockNoPackages),
          Repo(path, NoFile, npmGood, lockNoVersion),
          [Repo(path, pipGood, NoFile, NoFile) EXCEPT !.git_log = Ok(<<>>)],
          [Repo(path, pipGood, NoFile, NoFile) EXCEPT !.git_log = Raise("FileNotFoundError")],
          [Repo(path, pipGood, NoFile, NoFile) EXCEPT !.git = FALSE]}

\* the trees of n directories in os.walk order: directory k lies at the top
\* or inside directory k - 1
RECURSIVE Trees(_)
Trees(n) ==
    IF n = 0 THEN {<<>>}
    ELSE UNION {{Append(s, d) :
                   d \in UNION {DirsAt(p) :
                                  p \in {<<ToString(n)>>}
                                        \cup (IF n > 1
                                              THEN {Append(s[n - 1].path, ToString(n))}
                                              ELSE {})}} :
                s \in Trees(n - 1)}

\* the trees of at most n directories, and for one directory every argument
\* count and an output directory that cannot be written
ScanWorlds(n) ==
    {World(ds) : ds \in UNION {Trees(k) : k \in 0..n}}
    \cup {[World(ds) EXCEPT !.argc = c] : ds \in Trees(1), c \in {1, 3}}
    \cup {[World(ds) EXCEPT !.writable = FALSE] : ds \in Trees(1)}

\* one repository holding all three manifests
FullRepo == Repo(<<"1">>, pipGood, npmGood, lockGood)

Init == \E w \in ScanWorlds(MaxRepos) : Start(w)
Spec == Init /\ [][Next]_vars

\* one repository whose requirements.txt ranges over PipFiles
InitPip ==
    \E w \in {World(<<Repo(<<"1">>, f, NoFile, NoFile)>>) : f \in PipFiles(MaxLineLen, MaxLines, MaxShortLen)}
             \cup {World(<<FullRepo>>)} : Start(w)
SpecPip == InitPip /\ [][Next]_vars

\* one repository whose package.json ranges over NpmFiles
InitNpm ==
    \E w \in {World(<<Repo(<<"1">>, NoFile, f, NoFile)>>) : f \in NpmFiles(MaxKeys)}
             \cup {World(<<FullRepo>>)} : Start(w)
SpecNpm == InitNpm /\ [][Next]_vars

\* one repository whose package-lock.json ranges over LockFiles
InitLock ==
    \E w \in {World(<<Repo(<<"1">>, NoFile, Dict(<<>>), f)>>) : f \in LockFiles(MaxKeys, MaxPkgs)}
             \cup {World(<<FullRepo>>)} : Start(w)
SpecLock == InitLock /\ [][Next]_vars

-----------------------------------------------------------------------------
(* Properties                                                              *)

\* what the properties read of a dict, written from the file's content alone
HasKey(d, key) == \E j \in DOMAIN d.v : d.v[j][1] = key
ValueAt(d, key) ==
    IF HasKey(d, key) THEN d.v[CHOOSE j \in DOMAIN d.v : d.v[j][1] = key][2] ELSE None
\* the key/value pairs of a section that is present and not null
Section(d, key) == IF ValueAt(d, key).t = "dict" THEN ValueAt(d, key).v ELSE <<>>
FourSections(d) ==
    Section(d, dependencies) \o Section(d, devDependencies)
    \o Section(d, peerDependencies) \o Section(d, optionalDependencies)

Count(s, x) == Cardinality({i \in DOMAIN s : s[i] = x})
IsPermutation(s, t) ==
    /\ Len(s) = Len(t)
    /\ \A i \in DOMAIN s : Count(s, s[i]) = Count(t, s[i])

\* the calls of one parser, and the calls made on one path
CallsOf(fn) == {calls[k] : k \in {j \in DOMAIN calls : calls[j].fn = fn}}
CallsAt(path) == {k \in DOMAIN calls : calls[k].path = path}

\* <<name, version, path>> of the records of a sequence
RECURSIVE Triples(_)
Triples(records) ==
    IF records = <<>> THEN <<>>
    ELSE << <<Head(records).name, Head(records).version, Head(records).path>> >>
         \o Triples(Tail(records))

\* <<name, version, path>> of every pair the listed calls returned, in order
RECURSIVE PairsWithPath(_, _)
PairsWithPath(pairs, path) ==
    IF pairs = <<>> THEN <<>>
    ELSE << <<Head(pairs)[1], Head(pairs)[2], path>> >> \o PairsWithPath(Tail(pairs), path)
RECURSIVE Discovered(_)
Discovered(cs) ==
    IF cs = <<>> THEN <<>>
    ELSE (IF Head(cs).result.exc = "none"
          THEN PairsWithPath(Head(cs).result.val, Head(cs).path) ELSE <<>>)
         \o Discovered(Tail(cs))

\* repository k of the scan has been left by the loop
Processed(k) == k \in DOMAIN git_repo_paths /\ idx > k
ManifestAt(k, name) == os_path_join(git_repo_paths[k], name)
Exists(k, name) == dir_at(git_repo_paths[k]).files[name] # NoFile
RecordsAt(path) == SelectSeq(sbom, LAMBDA r : r.path = path)

\* C1: parse_npmlock on a lockfile whose top-level object has no `packages`
\* key returns the empty list and raises nothing.
C1_NoPackagesKeyGivesNoPairs ==
    \A c \in CallsOf("parse_npmlock") :
        (file_at(c.path).t = "dict" /\ ~HasKey(file_at(c.path), packages))
            => c.result = Ok(<<>>)

\* C2: a repository without any of the three manifests adds no record and
\* causes no error; when no repository has a manifest (the accumulated list
\* is empty) the run still raises nothing up to the end of the output step.
NoManifest(d) == \A f \in FileNames : d.files[f] = NoFile
C2_NoManifestNoError ==
    /\ \A k \in DOMAIN git_repo_paths :
          (Processed(k) /\ NoManifest(dir_at(git_repo_paths[k])))
              => \A f \in FileNames : RecordsAt(ManifestAt(k, f)) = <<>>
    /\ (/\ world.argc = 2
        /\ world.writable
        /\ git_repo_paths # <<>>
        /\ \A j \in DOMAIN world.dirs :
              NoManifest(world.dirs[j]) /\ world.dirs[j].git_log.exc = "none")
           => exc = "none"

\* the pairs a call returned are the records of its path, and a path
\* without a call has no records
PairsBecomeRecords(path) ==
    /\ Cardinality(CallsAt(path)) <= 1
    /\ IsPermutation(Triples(RecordsAt(path)),
                     Discovered(SelectSeq(calls, LAMBDA c : c.path = path)))

\* C3 as claimed: for every repository the loop has left and each of the
\* three conventional files, the file's parser was invoked, and its pairs
\* became records, if and only if the file exists at the root.
C3_ParsedIffExists ==
    \A k \in DOMAIN git_repo_paths : \A f \in FileNames :
        Processed(k) =>
            /\ (CallsAt(ManifestAt(k, f)) # {}) <=> Exists(k, f)
            /\ PairsBecomeRecords(ManifestAt(k, f))

\* C3 as amended: requirements.txt and package.json are parsed if and only
\* if they exist; package-lock.json is parsed if and only if it exists and
\* package.json exists too.
C3_LockParsedOnlyWithPackageJson ==
    \A k \in DOMAIN git_repo_paths : \A f \in FileNames :
        Processed(k) =>
            /\ (CallsAt(ManifestAt(k, f)) # {})
                  <=> (/\ Exists(k, f)
                       /\ (f = "package-lock.json" => Exists(k, "package.json")))
            /\ PairsBecomeRecords(ManifestAt(k, f))

\* a repository left by the loop with a requirements.txt that was parsed
\* and a package-lock.json, without package.json, that was not
C3_Witness ==
    \E k \in DOMAIN git_repo_paths :
        /\ Processed(k)
        /\ Exists(k, "package-lock.json") /\ ~Exists(k, "package.json")
        /\ Exists(k, "requirements.txt")
        /\ CallsAt(ManifestAt(k, "package-lock.json")) = {}
        /\ RecordsAt(ManifestAt(k, "requirements.txt")) # <<>>

\* the pairs the claim lists for the entries of `packages`, in mapping order
RECURSIVE EntryPairs(_)
EntryPairs(entries) ==
    IF entries = <<>> THEN <<>>
    ELSE (IF Head(entries)[1] = <<>> THEN <<>>
          ELSE << <<Head(entries)[1], ValueAt(Head(entries)[2], version)>> >>
               \o FourSections(Head(entries)[2]))
         \o EntryPairs(Tail(entries))

\* C4: on a lockfile with a `packages` mapping parse_npmlock returns, for
\* each entry but the one keyed "", in mapping order, the pair (key, version)
\* followed by the pairs of its four dependency sections in their fixed
\* order, and nothing else.
C4_LockPairs ==
    \A c \in CallsOf("parse_npmlock") :
        LET file == file_at(c.path)
        IN (file.t = "dict" /\ ValueAt(file, packages).t = "dict")
              => c.result = Ok(EntryPairs(ValueAt(file, packages).v))

\* a lockfile parsed whose "" entry has a non-empty section and whose
\* second entry has a version-less pair and a non-empty section
C4_Witness ==
    \E c \in CallsOf("parse_npmlock") :
        LET entries == ValueAt(file_at(c.path), packages).v
        IN /\ ValueAt(file_at(c.path), packages).t = "dict"
           /\ Len(entries) = 2
           /\ entries[1][1] = <<>> /\ FourSections(entries[1][2]) # <<>>
           /\ entries[2][1] # <<>> /\ FourSections(entries[2][2]) # <<>>
           /\ c.result.exc = "none"
           /\ Len(c.result.val) = 2
           /\ c.result.val[1] = <<entries[2][1], None>>

\* C5: parse_npm returns the key/value pairs of the four sections that are
\* present and not null, section after section in the fixed order, a name
\* of two sections twice, and nothing for any other key.
C5_NpmPairs ==
    \A c \in CallsOf("parse_npm") :
        file_at(c.path).t = "dict" => c.result = Ok(FourSections(file_at(c.path)))

\* a package.json parsed that lists one name in devDependencies and in
\* peerDependencies, with different versions
C5_Witness ==
    \E c \in CallsOf("parse_npm") :
        LET file == file_at(c.path)
        IN /\ file.t = "dict"
           /\ Len(Section(file, devDependencies)) = 1
           /\ Len(Section(file, peerDependencies)) = 1
           /\ c.result.exc = "none"
           /\ Len(c.result.val) = 2
           /\ c.result.val[1][1] = c.result.val[2][1]
           /\ c.result.val[1][2] # c.result.val[2][2]

\* the place of the first '==' of a line
HasDelimiter(line) == \E q \in 1..(Len(line) - 1) : line[q] = "=" /\ line[q + 1] = "="
FirstDelimiter(line) ==
    CHOOSE q \in 1..(Len(line) - 1) :
        /\ line[q] = "=" /\ line[q + 1] = "="
        /\ \A r \in 1..(q - 1) : ~(line[r] = "=" /\ line[r + 1] = "=")
NameOf(line) == SubSeq(line, 1, FirstDelimiter(line) - 1)
VersionOf(line) == SubSeq(line, FirstDelimiter(line) + 2, Len(line))

\* C6: for a requirements.txt whose lines all contain '==' (and end in no
\* blank, so that only the line ending is removed), parse_pip maps the text
\* before the first '==' of a line to all the text after it, verbatim (the
\* last line of a name giving its version), with one entry for each distinct
\* name.
C6_SplitAtFirstDelimiter ==
    \A c \in CallsOf("parse_pip") :
        LET lines == file_at(c.path).v
        IN (\A i \in DOMAIN lines : HasDelimiter(lines[i]) /\ lines[i][Len(lines[i])] # " ") =>
              /\ c.result.exc = "none"
              /\ Len(c.result.val) = Cardinality({NameOf(lines[i]) : i \in DOMAIN lines})
              /\ \A i \in DOMAIN lines :
                    (\A j \in DOMAIN lines : j > i => NameOf(lines[j]) # NameOf(lines[i]))
                        => \E e \in DOMAIN c.result.val :
                              c.result.val[e] = <<NameOf(lines[i]), Str(VersionOf(lines[i]))>>

\* (name, version) of x is not above that of y, in Python's order of tuples
KeyLeq(x, y) ==
    \/ str_lt(x.name, y.name)
    \/ /\ x.name = y.name
       /\ \/ x.version = y.version
          \/ /\ x.version.t = "str" /\ y.version.t = "str"
             /\ str_lt(x.version.v, y.version.v)
\* the place in the scan of the call that gave a record
CallIndex(r) == CHOOSE k \in DOMAIN calls : calls[k].path = r.path

\* C7: the sort step completes for every accumulated list, a version of
\* None included, and leaves the records in non-decreasing order of
\* (name, version), those of equal (name, version) in the order they were
\* appended.
C7_SortCompletes ==
    /\ pc = "sort" => exc = "none"
    /\ pc \in {"csv", "json", "done"} =>
          \A i, j \in DOMAIN sbom :
              i < j => /\ KeyLeq(sbom[i], sbom[j])
                       /\ (sbom[i].name = sbom[j].name /\ sbom[i].version = sbom[j].version)
                              => CallIndex(sbom[i]) <= CallIndex(sbom[j])

\* C8: at every point of the run the records are a permutation of the pairs
\* the parser invocations returned, each with the path of its manifest, and
\* what is written to the output files is that sequence: nothing is removed,
\* merged or added.
C8_OutputIsPermutation ==
    /\ IsPermutation(Triples(sbom), Discovered(calls))
    /\ csv_file.rows # <<>> => csv_file.rows = sbom
    /\ json_file.written => json_file.rows = sbom

\* the output written, holding two records of equal name and version from
\* different repositories, and in another order than they were appended
C8_Witness ==
    /\ pc = "done"
    /\ json_file.written
    /\ Triples(json_file.rows) # Discovered(calls)
    /\ \E i, j \in DOMAIN json_file.rows :
          /\ json_file.rows[i].name = json_file.rows[j].name
          /\ json_file.rows[i].version = json_file.rows[j].version
          /\ os_path_dirname(json_file.rows[i].path) # os_path_dirname(json_file.rows[j].path)
    /\ \E i, j \in DOMAIN json_file.rows :
          /\ json_file.rows[i].name = json_file.rows[j].name
          /\ json_file.rows[i].version = json_file.rows[j].version
          /\ json_file.rows[i].path # json_file.rows[j].path
          /\ os_path_dirname(json_file.rows[i].path) = os_path_dirname(json_file.rows[j].path)

\* C9: no failure of a manifest or of a revision lookup ends the run: an
\* exception ends it only in the output step.
C9_ScanFailuresDoNotAbort ==
    exc # "none" => pc \notin {"hash", "pip", "npm", "lock"}

\* h is what git printed for the root, without its quotes and line end
IsRevisionOf(h, root) ==
    LET out == dir_at(root).git_log.val
    IN IF out = <<>> THEN h = <<>> ELSE out = <<"\"">> \o h \o <<"\"", "\n">>
OneHash(records) ==
    \A i \in DOMAIN records :
        /\ IsRevisionOf(records[i].commit_hash, os_path_dirname(records[i].path))
        /\ (pc \in {"pip", "npm", "lock"} /\ os_path_dirname(records[i].path) = repo_path)
              => records[i].commit_hash = commit_hash

\* C10: in every state all records whose manifest lies directly in one
\* repository root carry one commit_hash, the revision looked up for that
\* root before its manifests were parsed, whichever parser gave the record
\* and also when a root lies inside another.
C10_OneHashPerRoot ==
    /\ OneHash(sbom)
    /\ OneHash(csv_file.rows)
    /\ OneHash(json_file.rows)

\* the output written with records of all three manifests of a root and of
\* all three of a root inside it, under different revisions
C10_Witness ==
    /\ pc = "done"
    /\ \E k, m \in DOMAIN git_repo_paths :
          /\ os_path_dirname(git_repo_paths[m]) = git_repo_paths[k]
          /\ \A f \in FileNames :
                /\ RecordsAt(ManifestAt(k, f)) # <<>>
                /\ RecordsAt(ManifestAt(m, f)) # <<>>
          /\ RecordsAt(ManifestAt(k, "package.json"))[1].commit_hash
                # RecordsAt(ManifestAt(m, "package.json"))[1].commit_hash

====
